---- MODULE Spec2Model ----
(***************************************************************************)
(* Model of migrate_tags.py: the temporal classifier (TEMPORAL_PATTERNS,   *)
(* is_temporal_value), the two-pass line rewriter (migrate_line) and the   *)
(* document driver (migrate_content).                                      *)
(*                                                                         *)
(* Text is a sequence of one-character strings.  A regular expression is   *)
(* modelled by the set of offsets it can reach: an operator X(s, P) takes  *)
(* the text s and a set P of offsets (number of characters of s already    *)
(* consumed) and returns the offsets reachable by matching X from any of   *)
(* them.  A backtracking matcher finds a match exactly when that set has a *)
(* member satisfying the rest of the expression.                           *)
(***************************************************************************)
EXTENDS Integers, Sequences, FiniteSets, TLC

VARIABLES content, lines, i, line, afterA, result, changes,
          new_lines, all_changes, output, reran, value, temporal, pc

vars == <<content, lines, i, line, afterA, result, changes,
          new_lines, all_changes, output, reran, value, temporal, pc>>

----------------------------------------------------------------------------
(* Character classes of the regular expressions *)

\* \d
Digit == {"0", "1", "2", "3", "4", "5", "6", "7", "8", "9"}

\* \s
WS == {" ", "\t", "\n", "\r"}

UpperChars == <<"A", "B", "C", "D", "E", "F", "G", "H", "I", "J", "K", "L", "M",
                "N", "O", "P", "Q", "R", "S", "T", "U", "V", "W", "X", "Y", "Z">>

LowerChars == <<"a", "b", "c", "d", "e", "f", "g", "h", "i", "j", "k", "l", "m",
                "n", "o", "p", "q", "r", "s", "t", "u", "v", "w", "x", "y", "z">>

LowerOf == [c \in {UpperChars[k] : k \in DOMAIN UpperChars} |->
              LowerChars[CHOOSE k \in DOMAIN UpperChars : UpperChars[k] = c]]

\* A faulty variant of IGNORECASE: the flag is dropped, every character stands for itself.
IGNORECASE_dropped(c) == c

\* re.IGNORECASE: characters are compared after case folding.
IGNORECASE(c) == IF c \in DOMAIN LowerOf THEN LowerOf[c] ELSE c

\* One character out of the class C.
Class(s, P, C) ==
  {p + 1 : p \in {q \in P : q < Len(s) /\
                     \E d \in C : IGNORECASE(s[q + 1]) = IGNORECASE(d)}}

\* The literal word w.
Word(s, P, w) ==
  {p + Len(w) : p \in {q \in P : q + Len(w) <= Len(s) /\
                     \A k \in 1..Len(w) : IGNORECASE(s[q + k]) = IGNORECASE(w[k])}}

D1(s, P) == Class(s, P, Digit)
D2(s, P) == D1(s, D1(s, P))
D4(s, P) == D2(s, D2(s, P))
\* \d{1,2}
D12(s, P) == D1(s, P) \cup D2(s, P)
\* \d{2,4}
D24(s, P) == D2(s, P) \cup D1(s, D2(s, P)) \cup D4(s, P)

\* [-./]
DateSep == {"-", ".", "/"}
\* (?:am|pm)
AmPm(s, P) == Word(s, P, <<"a", "m">>) \cup Word(s, P, <<"p", "m">>)
\* [wWkK][wW]?
WeekMark(s, P) ==
  LET k == Class(s, P, {"w", "W", "k", "K"})
  IN  k \cup Class(s, k, {"w", "W"})
\* \d{1,2}(?::\d{2})?(?:am|pm)?
TimeExpr(s, P) ==
  LET h == D12(s, P)
      hm == h \cup D2(s, Class(s, h, {":"}))
  IN  hm \cup AmPm(s, hm)

----------------------------------------------------------------------------
(* TEMPORAL_PATTERNS, one operator per list entry *)

\* \d{4}[-./]\d{1,2}[-./]\d{1,2}
DateYMD(s, P) == D12(s, Class(s, D12(s, Class(s, D4(s, P), DateSep)), DateSep))
\* \d{1,2}[-./]\d{1,2}[-./]\d{2,4}
DateDMY(s, P) == D24(s, Class(s, D12(s, Class(s, D12(s, P), DateSep)), DateSep))
\* \d{1,2}[-./]\d{1,2}
DateDM(s, P) == D12(s, Class(s, D12(s, P), DateSep))
\* \d{4}[-.]?[wWkK][wW]?\d{1,2}
YearWeek(s, P) ==
  LET y == D4(s, P)
  IN  D12(s, WeekMark(s, y \cup Class(s, y, {"-", "."})))
\* [wWkK][wW]?\d{1,2}
Week(s, P) == D12(s, WeekMark(s, P))
\* \d{1,2}:\d{2}(?:am|pm)?
Time(s, P) ==
  LET t == D2(s, Class(s, D12(s, P), {":"}))
  IN  t \cup AmPm(s, t)
\* \d{1,2}(?:am|pm)
TimeAmPm(s, P) == AmPm(s, D12(s, P))
\* \d{1,2}(?::\d{2})?(?:am|pm)?-\d{1,2}(?::\d{2})?(?:am|pm)?
TimeSlot(s, P) == TimeExpr(s, Class(s, TimeExpr(s, P), {"-"}))
\* (?:mon|monday|tue|tuesday|wed|wednesday|thu|thursday|fri|friday|sat|saturday|sun|sunday)
WeekdayNames ==
  {<<"m", "o", "n">>, <<"m", "o", "n", "d", "a", "y">>,
   <<"t", "u", "e">>, <<"t", "u", "e", "s", "d", "a", "y">>,
   <<"w", "e", "d">>, <<"w", "e", "d", "n", "e", "s", "d", "a", "y">>,
   <<"t", "h", "u">>, <<"t", "h", "u", "r", "s", "d", "a", "y">>,
   <<"f", "r", "i">>, <<"f", "r", "i", "d", "a", "y">>,
   <<"s", "a", "t">>, <<"s", "a", "t", "u", "r", "d", "a", "y">>,
   <<"s", "u", "n">>, <<"s", "u", "n", "d", "a", "y">>}
Weekday(s, P) == UNION {Word(s, P, w) : w \in WeekdayNames}
\* [YyJj]\d{4}
YearTag(s, P) == D4(s, Class(s, P, {"Y", "y", "J", "j"}))

\* '|'.join(TEMPORAL_PATTERNS)
TEMPORAL_PATTERNS(s, P) ==
  DateYMD(s, P) \cup DateDMY(s, P) \cup DateDM(s, P) \cup YearWeek(s, P)
    \cup Week(s, P) \cup Time(s, P) \cup TimeAmPm(s, P) \cup TimeSlot(s, P)
    \cup Weekday(s, P) \cup YearTag(s, P)

\* $ without re.MULTILINE: the end of the text, or just before a final newline.
AtEnd(s, e) == e = Len(s) \/ (e = Len(s) - 1 /\ s[Len(s)] = "\n")

\* A faulty variant of Boundary: only the end of the text ends a token.
Boundary_end_only(s, e) == AtEnd(s, e)

\* (\s|$) after offset e
Boundary(s, e) == (e < Len(s) /\ s[e + 1] \in WS) \/ AtEnd(s, e)

\* TEMPORAL_REGEX.match(v): ^( ... )(?:\s|$)
TEMPORAL_REGEX(v) == {e \in TEMPORAL_PATTERNS(v, {0}) : Boundary(v, e)}

\* A faulty variant of is_temporal_value: the week rule W12 / KW12 is missing from the
\* classifier, while step 1 of migrate_line still converts such tokens.
is_temporal_value_no_week(v) ==
  \E e \in (TEMPORAL_PATTERNS(v, {0}) \ Week(v, {0})) : Boundary(v, e)

is_temporal_value(v) == TEMPORAL_REGEX(v) # {}

----------------------------------------------------------------------------
(* migrate_line *)

Arrow == <<" ", "-", ">", " ">>

\* f"!{value} -> @{value}"
ExclaimChange(v) == <<"!">> \o v \o Arrow \o <<"@">> \o v

\* f"@{value} -> #{value}"
AtChange(v) == <<"@">> \o v \o Arrow \o <<"#">> \o v

\* A faulty variant of temporal_pattern: any run of letters and digits counts as temporal.
temporal_pattern_any(s, p) ==
  IF s[p + 1] = "!"
  THEN {e \in (p + 2)..Len(s) :
          /\ Boundary(s, e)
          /\ \A k \in (p + 2)..e : s[k] \notin WS \cup {"!", "@", "#"}}
  ELSE {}

\* temporal_pattern matched at offset p < Len(s): the offsets at which group 1
\* can end.  The pattern is  !( ... )(\s|$) ; nothing is required before the "!".
\* No rule matches whitespace, so the set has at most one member.
temporal_pattern(s, p) ==
  IF s[p + 1] = "!"
  THEN {e \in TEMPORAL_PATTERNS(s, {p + 1}) : Boundary(s, e)}
  ELSE {}

\* match.group(2) of temporal_pattern: \s is tried before $.
ExclaimGroup2(s, e) == IF e < Len(s) /\ s[e + 1] \in WS THEN <<s[e + 1]>> ELSE <<>>

\* replace_exclaim_temporal: the replacement text of one match.
replace_exclaim_temporal(v, g2) == <<"@">> \o v \o g2

\* re.sub(temporal_pattern, replace_exclaim_temporal, result) from offset p on:
\* the rewritten rest of the text and the changes the callback appends.
RECURSIVE ExclaimSub(_, _)
ExclaimSub(s, p) ==
  IF p >= Len(s) THEN [text |-> <<>>, changes |-> <<>>]
  ELSE LET ends == temporal_pattern(s, p)
       IN  IF ends = {}
           THEN LET r == ExclaimSub(s, p + 1)
                IN  [text |-> <<s[p + 1]>> \o r.text, changes |-> r.changes]
           ELSE LET e == CHOOSE x \in ends : TRUE
                    v == SubSeq(s, p + 2, e)
                    g2 == ExclaimGroup2(s, e)
                    r == ExclaimSub(s, e + Len(g2))
                IN  [text |-> replace_exclaim_temporal(v, g2) \o r.text,
                     changes |-> <<ExclaimChange(v)>> \o r.changes]

\* [^\s@]+ from offset q, greedy: the offset after the longest run.
RECURSIVE TokenEnd(_, _)
TokenEnd(s, q) ==
  IF q < Len(s) /\ s[q + 1] \notin WS \cup {"@"} THEN TokenEnd(s, q + 1) ELSE q

\* at_pattern  (^|\s)@([^\s@]+)  matched at offset p < Len(s): the match, if any.
at_pattern(s, p) ==
  IF p = 0 /\ s[1] = "@" /\ TokenEnd(s, 1) > 1
  THEN {[start |-> 0, end |-> TokenEnd(s, 1), prefix_space |-> <<>>,
         value |-> SubSeq(s, 2, TokenEnd(s, 1))]}
  ELSE IF /\ p + 1 < Len(s)
          /\ s[p + 1] \in WS
          /\ s[p + 2] = "@"
          /\ TokenEnd(s, p + 2) > p + 2
  THEN {[start |-> p, end |-> TokenEnd(s, p + 2), prefix_space |-> <<s[p + 1]>>,
         value |-> SubSeq(s, p + 3, TokenEnd(s, p + 2))]}
  ELSE {}

\* A faulty variant of FindIter: re.search in place of re.finditer, the first match only.
RECURSIVE FindIter_first_only(_, _)
FindIter_first_only(s, p) ==
  IF p >= Len(s) THEN <<>>
  ELSE IF at_pattern(s, p) = {} THEN FindIter_first_only(s, p + 1)
  ELSE <<CHOOSE x \in at_pattern(s, p) : TRUE>>

\* list(re.finditer(at_pattern, result)): non-overlapping matches, left to right.
RECURSIVE FindIter(_, _)
FindIter(s, p) ==
  IF p >= Len(s) THEN <<>>
  ELSE LET ms == at_pattern(s, p)
       IN  IF ms = {} THEN FindIter(s, p + 1)
           ELSE LET m == CHOOSE x \in ms : TRUE
                IN  <<m>> \o FindIter(s, m.end)

\* A faulty variant of AtReplace: the text before the match is spliced without the
\* whitespace that the match consumed.
AtReplace_drop_prefix(nr, m) ==
  SubSeq(nr, 1, m.start) \o <<"#">> \o m.value \o SubSeq(nr, m.end + 1, Len(nr))

\* new_result[:start] + prefix_space + '#' + value + new_result[end:]
AtReplace(nr, m) ==
  SubSeq(nr, 1, m.start) \o m.prefix_space \o <<"#">> \o m.value
    \o SubSeq(nr, m.end + 1, Len(nr))

\* A faulty variant of AtLoop: the temporal test is skipped, every match is converted.
RECURSIVE AtLoop_convert_all(_, _, _, _)
AtLoop_convert_all(matches, k, new_result, chs) ==
  IF k = 0 THEN [text |-> new_result, changes |-> chs]
  ELSE AtLoop_convert_all(matches, k - 1, AtReplace(new_result, matches[k]),
                          Append(chs, AtChange(matches[k].value)))

\* A faulty variant of AtLoop: each description is put at the front of the list
\* (changes.insert(0, ...)) instead of being appended.
RECURSIVE AtLoop_insert_front(_, _, _, _)
AtLoop_insert_front(matches, k, new_result, chs) ==
  IF k = 0 THEN [text |-> new_result, changes |-> chs]
  ELSE IF is_temporal_value(matches[k].value)
  THEN AtLoop_insert_front(matches, k - 1, new_result, chs)
  ELSE AtLoop_insert_front(matches, k - 1, AtReplace(new_result, matches[k]),
                           <<AtChange(matches[k].value)>> \o chs)

\* for match in reversed(matches): matches[k], ..., matches[1]
RECURSIVE AtLoop(_, _, _, _)
AtLoop(matches, k, new_result, chs) ==
  IF k = 0 THEN [text |-> new_result, changes |-> chs]
  ELSE LET m == matches[k]
       IN  IF is_temporal_value(m.value)
           THEN AtLoop(matches, k - 1, new_result, chs)
           ELSE AtLoop(matches, k - 1, AtReplace(new_result, m),
                       Append(chs, AtChange(m.value)))

\* Step 1 of migrate_line: convert !temporal to @temporal.
PassAOf(s) == ExclaimSub(s, 0)

\* Step 2 of migrate_line: convert @person to #person, not @temporal.
PassBOf(s, chs) ==
  LET matches == FindIter(s, 0)
  IN  IF Len(matches) > 0 THEN AtLoop(matches, Len(matches), s, chs)
      ELSE [text |-> s, changes |-> chs]

migrate_line(s) ==
  LET a == PassAOf(s)
  IN  PassBOf(a.text, a.changes)

----------------------------------------------------------------------------
(* migrate_content *)

\* content.split('\n')
RECURSIVE SplitNL(_)
SplitNL(s) ==
  IF \A k \in 1..Len(s) : s[k] # "\n" THEN <<s>>
  ELSE LET n == CHOOSE k \in 1..Len(s) :
                  s[k] = "\n" /\ \A j \in 1..(k - 1) : s[j] # "\n"
       IN  <<SubSeq(s, 1, n - 1)>> \o SplitNL(SubSeq(s, n + 1, Len(s)))

\* '\n'.join(new_lines)
RECURSIVE JoinNL(_)
JoinNL(ls) ==
  IF Len(ls) = 0 THEN <<>>
  ELSE IF Len(ls) = 1 THEN ls[1]
  ELSE ls[1] \o <<"\n">> \o JoinNL(Tail(ls))

DigitChars == <<"0", "1", "2", "3", "4", "5", "6", "7", "8", "9">>

\* str(n) for n >= 0, as the f-string formats {i+1}
RECURSIVE Str(_)
Str(n) ==
  IF n < 10 THEN <<DigitChars[n + 1]>>
  ELSE Str(n \div 10) \o <<DigitChars[(n % 10) + 1]>>

\* A faulty variant of LinePrefix: the enumerate index is used as it is, zero-based.
LinePrefix_zero_based(k) == <<"L", "i", "n", "e", " ">> \o Str(k) \o <<":", " ">>

\* f"Line {i+1}: " for the enumerate index k
LinePrefix(k) == <<"L", "i", "n", "e", " ">> \o Str(k + 1) \o <<":", " ">>

----------------------------------------------------------------------------
(* Inputs *)

MaxFrags == 3

Prefixes == {<<>>, <<"!">>, <<"@">>}
Bodies == {<<>>, <<"j", "o">>, <<"W", "1">>}
Separators == {<<" ">>, <<"\t">>, <<"\n">>}

\* The pieces a document is put together from: a bare or prefixed word, a
\* prefix on its own, whitespace, or nothing.
Fragments == {p \o b : p \in Prefixes, b \in Bodies} \cup Separators

RECURSIVE Concat(_)
Concat(fs) == IF Len(fs) = 0 THEN <<>> ELSE Head(fs) \o Concat(Tail(fs))

Documents == {Concat(f) : f \in [1..MaxFrags -> Fragments]}

----------------------------------------------------------------------------
(* The program: one run of migrate_content over a document, line by line,   *)
(* and a further run over the text it returned.                            *)

Init ==
  /\ content \in Documents
  /\ lines = <<>>
  /\ i = 0
  /\ line = <<>>
  /\ afterA = <<>>
  /\ result = <<>>
  /\ changes = <<>>
  /\ new_lines = <<>>
  /\ all_changes = <<>>
  /\ output = <<>>
  /\ reran = FALSE
  /\ value = <<>>
  /\ temporal = FALSE
  /\ pc = "split"

\* lines = content.split('\n'); all_changes = []; new_lines = []
Split ==
  /\ pc = "split"
  /\ lines' = SplitNL(content)
  /\ i' = 0
  /\ new_lines' = <<>>
  /\ all_changes' = <<>>
  /\ pc' = "line"
  /\ UNCHANGED <<content, line, afterA, result, changes, output, reran, value, temporal>>

\* migrate_line, step 1, on the next line of the loop
PassA ==
  /\ pc = "line"
  /\ i < Len(lines)
  /\ line' = lines[i + 1]
  /\ \E a \in {PassAOf(lines[i + 1])} :
         /\ afterA' = a.text
         /\ result' = a.text
         /\ changes' = a.changes
  /\ pc' = "passB"
  /\ UNCHANGED <<content, lines, i, new_lines, all_changes, output, reran, value, temporal>>

\* migrate_line, step 2, and the loop body of migrate_content that takes its result
PassB ==
  /\ pc = "passB"
  /\ \E b \in {PassBOf(result, changes)} :
         /\ result' = b.text
         /\ changes' = b.changes
         /\ new_lines' = Append(new_lines, b.text)
         /\ all_changes' = all_changes \o
              [k \in 1..Len(b.changes) |-> LinePrefix(i) \o b.changes[k]]
  /\ i' = i + 1
  /\ pc' = "line"
  /\ UNCHANGED <<content, lines, line, afterA, output, reran, value, temporal>>

\* return '\n'.join(new_lines), all_changes
Join ==
  /\ pc = "line"
  /\ i = Len(lines)
  /\ output' = JoinNL(new_lines)
  /\ pc' = "done"
  /\ UNCHANGED <<content, lines, i, line, afterA, result, changes, new_lines,
                 all_changes, reran, value, temporal>>

\* The migration is run again on the text the last run returned.
Rerun ==
  /\ pc = "done"
  /\ content' = output
  /\ reran' = TRUE
  /\ lines' = <<>>
  /\ i' = 0
  /\ line' = <<>>
  /\ afterA' = <<>>
  /\ result' = <<>>
  /\ changes' = <<>>
  /\ new_lines' = <<>>
  /\ all_changes' = <<>>
  /\ output' = <<>>
  /\ pc' = "split"
  /\ UNCHANGED <<value, temporal>>

Next == Split \/ PassA \/ PassB \/ Join \/ Rerun

Spec == Init /\ [][Next]_vars

----------------------------------------------------------------------------
(* The classifier on its own: is_temporal_value applied to one token.       *)

\* Tokens in lower case: the shapes the usage text of the script lists, one
\* or more per rule of TEMPORAL_PATTERNS, and tokens that are no temporal value.
TokenBases ==
  {<<"2", "0", "2", "5", "-", "0", "3", "-", "2", "7">>,
   <<"2", "7", ".", "0", "3", ".", "2", "5">>,
   <<"1", "/", "2">>,
   <<"2", "0", "2", "5", "-", "w", "1", "2">>,
   <<"2", "0", "2", "5", "k", "w", "1">>,
   <<"w", "1", "2">>,
   <<"k", "w", "1", "2">>,
   <<"1", "0", ":", "3", "0">>,
   <<"1", "0", ":", "3", "0", "p", "m">>,
   <<"9", "a", "m">>,
   <<"9", "a", "m", "-", "5", "p", "m">>,
   <<"9", ":", "0", "0", "-", "1", "7", ":", "0", "0">>,
   <<"m", "o", "n">>,
   <<"f", "r", "i", "d", "a", "y">>,
   <<"y", "2", "0", "2", "6">>,
   <<"j", "2", "0", "2", "6">>,
   <<>>,
   <<"j", "o", "h", "n">>,
   <<"w", "1", "2", "3">>,
   <<"9", "a", "m", "x">>,
   <<"m", "o", "n", "d">>,
   <<"1", "2">>,
   <<"a", "m">>,
   <<"y", "2", "6">>}

UpperOf == [c \in {LowerChars[k] : k \in DOMAIN LowerChars} |->
              UpperChars[CHOOSE k \in DOMAIN LowerChars : LowerChars[k] = c]]

\* The spellings of the token b that differ from it in letter case only.
CaseVariants(b) ==
  {[k \in 1..Len(b) |-> IF k \in S THEN UpperOf[b[k]] ELSE b[k]] :
     S \in SUBSET {k \in 1..Len(b) : b[k] \in DOMAIN UpperOf}}

Tokens == UNION {CaseVariants(b) : b \in TokenBases}

InitTemporal ==
  /\ value \in Tokens
  /\ temporal = FALSE
  /\ content = <<>>
  /\ lines = <<>>
  /\ i = 0
  /\ line = <<>>
  /\ afterA = <<>>
  /\ result = <<>>
  /\ changes = <<>>
  /\ new_lines = <<>>
  /\ all_changes = <<>>
  /\ output = <<>>
  /\ reran = FALSE
  /\ pc = "classify"

\* is_temporal_value(value)
Classify ==
  /\ pc = "classify"
  /\ temporal' = is_temporal_value(value)
  /\ pc' = "classified"
  /\ UNCHANGED <<content, lines, i, line, afterA, result, changes, new_lines,
                 all_changes, output, reran, value>>

NextTemporal == Classify

SpecTemporal == InitTemporal /\ [][NextTemporal]_vars

----------------------------------------------------------------------------
(* Properties *)

\* migrate_line has just returned for `line`: afterA is the text after step 1,
\* result and changes are what it returned.
LineDone == pc = "line" /\ i > 0

\* The text of s after its p-th character.
Rest(s, p) == SubSeq(s, p + 1, Len(s))

\* The p-th character of s stands at the line start or after whitespace.
LeadBoundary(s, p) == p = 1 \/ s[p - 1] \in WS

\* The offset at which the whitespace-free word running on from offset q ends.
RECURSIVE WordEnd(_, _)
WordEnd(s, q) == IF q < Len(s) /\ s[q + 1] \notin WS THEN WordEnd(s, q + 1) ELSE q

\* The whitespace-free word that follows the p-th character of s.
WordAfter(s, p) == SubSeq(s, p + 1, WordEnd(s, p))

Chars(s) == {s[k] : k \in 1..Len(s)}

\* C1: migrate_content is idempotent on the text. When the migration has run
\* again on the text a run returned, it returns that text unchanged.
C1_Idempotent == (pc = "done" /\ reran) => output = content

\* A second run has finished on a text in which the first run had produced
\* both a "#" (the documents are written without "#") and kept or made an "@".
C1_Witness == pc = "done" /\ reran /\ {"#", "@"} \subseteq Chars(output)

\* C2: every "@t" at the line start or after whitespace, whose word t is not
\* empty, holds no "@" and is not temporal, comes out as "#t" with t unchanged.
C2_NonTemporalConverts ==
  LineDone =>
    \A p \in 1..Len(line) :
      LET t == WordAfter(line, p)
      IN  ( /\ line[p] = "@"
            /\ LeadBoundary(line, p)
            /\ t # <<>>
            /\ "@" \notin Chars(t)
            /\ ~is_temporal_value(t) )
          => /\ result[p] = "#"
             /\ SubSeq(result, p + 1, WordEnd(line, p)) = t

\* The token that follows the p-th character of s: the characters up to the
\* next whitespace or "@".
TokenAfter(s, p) == SubSeq(s, p + 1, TokenEnd(s, p))

\* C3: an "@" at the line start or after whitespace whose token t is temporal
\* stays "@", and no "@t -> #t" change is recorded.
C3_TemporalStable ==
  LineDone =>
    \A p \in 1..Len(line) :
      ( /\ line[p] = "@"
        /\ LeadBoundary(line, p)
        /\ is_temporal_value(TokenAfter(line, p)) )
      => /\ result[p] = "@"
         /\ \A k \in 1..Len(changes) : changes[k] # AtChange(TokenAfter(line, p))

\* A line with a temporal "@" token that was kept and another "@" token that
\* step 2 converted.
C3_Witness ==
  /\ LineDone
  /\ \E p \in 1..Len(line) :
       /\ line[p] = "@"
       /\ LeadBoundary(line, p)
       /\ is_temporal_value(TokenAfter(line, p))
       /\ result[p] = "@"
  /\ \E q \in 1..Len(line) : line[q] = "@" /\ result[q] = "#"

\* C4: step 2 never reconverts what step 1 produced. When step 2 starts, step 1
\* has left no "!" followed by a temporal token; and in the returned line every
\* "!" of the input that step 1 turned into "@" is still "@", none is "#".
C4_NoReconvert ==
  /\ pc = "passB" =>
       \A p \in 1..Len(afterA) :
         afterA[p] = "!" => ~is_temporal_value(Rest(afterA, p))
  /\ LineDone =>
       /\ Len(afterA) = Len(line)
       /\ \A p \in 1..Len(line) :
            line[p] = "!" =>
              /\ result[p] # "#"
              /\ afterA[p] = "@" => result[p] = "@"

\* Step 1 made an "@" that step 2 then examined (it stands at a boundary), in a
\* line where step 2 did convert another token.
C4_Witness ==
  /\ LineDone
  /\ \E p \in 1..Len(line) :
       line[p] = "!" /\ afterA[p] = "@" /\ LeadBoundary(line, p) /\ result[p] = "@"
  /\ \E q \in 1..Len(line) : line[q] = "@" /\ result[q] = "#"

C6_Frame ==
  LineDone =>
    /\ Len(result) = Len(line)
    /\ \A p \in 1..Len(line) :
         \/ result[p] = line[p]
         \/ line[p] = "!" /\ result[p] = "@"
         \/ line[p] = "@" /\ result[p] = "#"

\* Both substitutions happened in one line, the "@" one after whitespace that
\* the match had consumed.
C6_Witness ==
  /\ LineDone
  /\ \E p \in 1..Len(line) : line[p] = "!" /\ result[p] = "@"
  /\ \E q \in 2..Len(line) : line[q] = "@" /\ result[q] = "#" /\ line[q - 1] \in WS

\* C7: a prefix character is rewritten only if it stands at the line start or
\* after whitespace and its token is followed by whitespace or the line end.
C7_Boundaries ==
  LineDone =>
    \A p \in 1..Len(line) :
      (p <= Len(result) /\ result[p] # line[p]) =>
        /\ LeadBoundary(line, p)
        /\ Boundary(line, TokenEnd(line, p))

\* The token v with every upper-case letter replaced by its lower-case letter.
ToLower(v) == [k \in 1..Len(v) |-> IF v[k] \in DOMAIN LowerOf THEN LowerOf[v[k]] ELSE v[k]]

\* The token v, whatever its letter case, is a clock time or a time range: its
\* only letters are those of the am / pm suffixes.
ClockShaped(v) ==
  Len(v) \in Time(ToLower(v), {0}) \cup TimeAmPm(ToLower(v), {0})
               \cup TimeSlot(ToLower(v), {0})

\* C8, as amended: matching in is_temporal_value is case-insensitive for every
\* alphabetic rule component, the am / pm suffixes included: a token is
\* classified as its lower-case spelling is.
C8_CaseInsensitive ==
  pc = "classified" => temporal = is_temporal_value(ToLower(value))

\* "9AM" has been classified, and as temporal.
C8_Witness == pc = "classified" /\ value = <<"9", "A", "M">> /\ temporal

\* C8, as stated: case-insensitive for weekday names, week and year markers,
\* case-sensitive for the am / pm suffixes, so that a clock time or time range
\* with an upper-case letter in its suffix is not temporal.
C8_AmPmCaseSensitive ==
  pc = "classified" =>
    IF ClockShaped(value)
    THEN temporal = (value = ToLower(value))
    ELSE temporal = is_temporal_value(ToLower(value))

\* C9: the words of a line are rewritten independently. Cutting the line at any
\* whitespace character, the returned line is what migrate_line returns for the
\* part before it, the whitespace character, and what it returns for the part
\* after it.
C9_WordsIndependent ==
  LineDone =>
    \A k \in 1..Len(line) :
      line[k] \in WS =>
        result = migrate_line(SubSeq(line, 1, k - 1)).text \o <<line[k]>>
                   \o migrate_line(Rest(line, k)).text

\* A line cut at a whitespace character with a rewritten prefix on each side,
\* one from "!" and one from "@".
C9_Witness ==
  /\ LineDone
  /\ \E k \in 2..(Len(line) - 1) :
       /\ line[k] \in WS
       /\ \E p \in 1..(k - 1), q \in (k + 1)..Len(line) :
            /\ result[p] # line[p]
            /\ result[q] # line[q]
            /\ line[p] # line[q]

\* The change descriptions of the lines ls, numbered from k on, each tagged
\* with "Line <number>: ", line after line.
RECURSIVE TaggedChanges(_, _)
TaggedChanges(ls, k) ==
  IF Len(ls) = 0 THEN <<>>
  ELSE [j \in 1..Len(migrate_line(Head(ls)).changes) |->
          <<"L", "i", "n", "e", " ">> \o Str(k) \o <<":", " ">>
            \o migrate_line(Head(ls)).changes[j]]
       \o TaggedChanges(Tail(ls), k + 1)

\* C10: migrate_content keeps the line structure and treats lines one by one.
\* The returned text has as many newline-separated lines as the input, its k-th
\* line is what migrate_line returns for the k-th input line, and the changes
\* are those of line 1, then line 2, ..., each tagged with its 1-based number.
C10_LineByLine ==
  pc = "done" =>
    /\ Len(SplitNL(output)) = Len(SplitNL(content))
    /\ \A k \in 1..Len(SplitNL(content)) :
         SplitNL(output)[k] = migrate_line(SplitNL(content)[k]).text
    /\ all_changes = TaggedChanges(SplitNL(content), 1)

\* A document of at least two lines with a change reported for line 1 and a
\* change reported for line 2.
C10_Witness ==
  /\ pc = "done"
  /\ Len(SplitNL(content)) >= 2
  /\ \E a \in 1..Len(all_changes), b \in 1..Len(all_changes) :
       a < b /\ all_changes[a][6] = "1" /\ all_changes[b][6] = "2"

----------------------------------------------------------------------------
(* Documents of whole words: up to MaxWords prefixed words, one whitespace   *)
(* character or newline between neighbours.                                 *)

MaxWords == 3

Words ==
  {<<"@", "j", "o">>, <<"@", "a">>, <<"@", "W", "1">>,
   <<"!", "W", "1">>, <<"!", "M", "o", "n">>, <<"a", "!", "W", "1">>}

WordSeparators == {<<" ">>, <<"\n">>}

RECURSIVE WordDocumentsOf(_)
WordDocumentsOf(n) ==
  IF n = 0 THEN {<<>>}
  ELSE IF n = 1 THEN Words
  ELSE {d \o s \o w : d \in WordDocumentsOf(n - 1), s \in WordSeparators, w \in Words}

WordDocuments == UNION {WordDocumentsOf(n) : n \in 0..MaxWords}

InitWords ==
  /\ content \in WordDocuments
  /\ lines = <<>>
  /\ i = 0
  /\ line = <<>>
  /\ afterA = <<>>
  /\ result = <<>>
  /\ changes = <<>>
  /\ new_lines = <<>>
  /\ all_changes = <<>>
  /\ output = <<>>
  /\ reran = FALSE
  /\ value = <<>>
  /\ temporal = FALSE
  /\ pc = "split"

SpecWords == InitWords /\ [][Next]_vars

\* The "!X -> @X" descriptions of the positions p, p + 1, ... of `line` at
\* which a "!" was replaced, left to right.
RECURSIVE ExclaimChangesFrom(_)
ExclaimChangesFrom(p) ==
  IF p > Len(line) THEN <<>>
  ELSE IF line[p] = "!" /\ result[p] # "!"
  THEN <<ExclaimChange(WordAfter(line, p))>> \o ExclaimChangesFrom(p + 1)
  ELSE ExclaimChangesFrom(p + 1)

\* The "@X -> #X" descriptions of the positions p, p - 1, ... of `line` at
\* which an "@" was replaced, right to left.
RECURSIVE AtChangesDownFrom(_)
AtChangesDownFrom(p) ==
  IF p < 1 THEN <<>>
  ELSE IF line[p] = "@" /\ result[p] # "@"
  THEN <<AtChange(TokenAfter(afterA, p))>> \o AtChangesDownFrom(p - 1)
  ELSE AtChangesDownFrom(p - 1)

\* C11: the change list of a line is ordered by step, not by position: first
\* the "!X -> @X" descriptions, left to right, then the "@X -> #X" descriptions,
\* right to left, one description for each replaced prefix character.
C11_ChangeOrder ==
  LineDone =>
    /\ Len(result) = Len(line)
    /\ changes = ExclaimChangesFrom(1) \o AtChangesDownFrom(Len(line))
    /\ Len(changes) = Cardinality({p \in 1..Len(line) : result[p] # line[p]})

\* A line in which a "!" was replaced to the right of a replaced "@", and two
\* "@" with different tokens were replaced.
C11_Witness ==
  /\ LineDone
  /\ \E p \in 1..Len(line), q \in 1..Len(line), r \in 1..Len(line) :
       /\ p < q
       /\ line[p] = "@" /\ result[p] = "#"
       /\ line[q] = "@" /\ result[q] = "#"
       /\ TokenAfter(afterA, p) # TokenAfter(afterA, q)
       /\ p < r
       /\ line[r] = "!" /\ result[r] = "@"

====
